---------------------------- MODULE Spec2Model ----------------------------
(***************************************************************************)
(* AlphaFX Trader: the trading engine (TradingEngine), its SQLite tables   *)
(* (trades, positions, trading_stats) and the price feed it trades on.     *)
(*                                                                         *)
(* Node runs the engine on one thread: a handler runs without interruption *)
(* until its next `await`; at an await other handlers (another evaluation  *)
(* cycle started by setInterval, start(), stop(), a price update, the      *)
(* completion of the constructor's loadCurrentVolume) may run.  A step of  *)
(* this model is the completion of one awaited database call together with *)
(* the synchronous code that follows it up to the next await.              *)
(*                                                                         *)
(* Units: money in $1000, quantity in 1000 units; JavaScript numbers are   *)
(* modelled as exact rationals <<numerator, denominator>>, and NaN.        *)
(***************************************************************************)
EXTENDS Integers, Sequences, FiniteSets, TLC

VARIABLES
    isActive,            \* TradingEngine.isActive
    tradingInterval,     \* TRUE while the setInterval timer of start() exists
    listeners,           \* number of priceUpdate listeners the engine registered
    currentDailyVolume,  \* TradingEngine.currentDailyVolume
    riskManagement,      \* TradingEngine.riskManagement (env RISK_MANAGEMENT)
    loadPending,         \* the constructor's loadCurrentVolume() has not resumed yet
    volumeLimitLogged,   \* a "would exceed daily volume limit" rejection has been logged
    prices,              \* FXDataSimulator.prices: symbol -> [bid, ask]
    trades,              \* table trades, in insertion order (db id = index)
    positions,           \* table positions: symbol -> row or NoRow
    stats,               \* table trading_stats: today's row or NoRow
    emitted,             \* db ids of the trades carried by tradeExecuted events
    faults,              \* database statements that have rejected so far
    overlaps,            \* evaluation cycles started while another was in flight
    budget,              \* what the environment does: [trades, faults, overlaps,
                         \* ticks, mid, days, algos, bars, runs, requests]
    today,               \* the UTC date, in days since the engine was constructed
    cycle,               \* the evaluation cycles in flight: slot -> frame
    tickSeq,             \* priceUpdate events the feed has emitted so far
    priceHistory,        \* TradingAlgorithms.priceHistory of the engine: symbol -> points
    added,               \* every point addPriceData was given, per symbol, in call order
    marks,               \* the updatePositionPnL calls in flight, in the order they began
    backtestHistory,     \* priceHistory of the TradingAlgorithms of the last runBacktest
    lastSignal,          \* the last call of getCombinedSignal: the signals of the
                         \* three strategies and the result
    runs                 \* the results runBacktest has returned, in order

vars == <<isActive, tradingInterval, listeners, currentDailyVolume, riskManagement,
          loadPending, volumeLimitLogged, prices, trades, positions, stats, emitted,
          faults, overlaps, budget, today, cycle, tickSeq, priceHistory, added, marks,
          backtestHistory, lastSignal, runs>>

\* the tick bus and what hangs on it
feedVars == <<tickSeq, priceHistory, added, marks, backtestHistory>>

\* what the signal and backtest requests return
algoVars == <<lastSignal, runs>>

-----------------------------------------------------------------------------
(* Bounds of the model *)

\* evaluation cycles that may overlap in time
MaxCycles == 2
\* trade attempts the algorithms signal before they fall silent
MaxTrades == 2
\* the same, when the cycles run one after the other and no statement rejects
MaxSerialTrades == 3
\* calls of start() that take effect
MaxStarts == 2
\* database statements that reject
MaxFaults == 1
\* evaluation cycles the timer starts while another is still in flight
MaxOverlaps == 1
\* priceUpdate events, where the history of the algorithms is followed
MaxTicks == 4
\* priceUpdate events, where the marks of the positions are followed
MaxMarkTicks == 2
\* trade attempts, where the marks of the positions are followed
MaxMarkTrades == 1
\* bars of historical data a backtest runs over
MaxBars == 1
\* bars of a backtest whose result is followed, and such backtests
MaxBacktestBars == 4
\* trades of the engine and bars of a backtest where the thresholds are compared
MaxThresholdTrades == 1
MaxThresholdBars == 3

\* ticks of the feed beside its news events
MaxNewsTicks == 3

MaxRuns == 2
\* trades, ticks and bars where one backtest runs beside the engine
MaxBesideTrades == 1
MaxBesideTicks == 1
MaxBesideBars == 1
\* trade attempts in flight at a time, on the quotes of FXDataSimulator
MaxFeedTrades == 2
\* changes of the UTC date while the engine lives
MaxDays == 1
\* the mids of the quotes the strategies are tried on are 2, 4, .., 2 * MaxMid
MaxMid == 4
\* trade attempts, where the date changes
MaxDayTrades == 2
\* trades and ticks of a specification that follows the strategies
MaxStrategyTrades == 1
MaxStrategyTicks == 4

-----------------------------------------------------------------------------
(* Exact rational arithmetic standing for JavaScript's numbers *)

Abs(x) == IF x < 0 THEN -x ELSE x

RECURSIVE GCD(_, _)
GCD(a, b) == IF b = 0 THEN a ELSE GCD(b, a % b)

\* NaN, which every operation on an undefined operand yields
NaN == <<0, 0>>
IsNaN(a) == a[2] = 0

Norm(n, d) ==
    IF d = 0 THEN NaN
    ELSE LET g == GCD(Abs(n), Abs(d))
             s == IF d < 0 THEN -1 ELSE 1
         IN  <<(s * n) \div g, (s * d) \div g>>

Rat(n) == <<n, 1>>
Zero == Rat(0)
RAdd(a, b) == Norm(a[1] * b[2] + b[1] * a[2], a[2] * b[2])
RNeg(a) == <<-a[1], a[2]>>
RSub(a, b) == RAdd(a, RNeg(b))
RMul(a, b) == Norm(a[1] * b[1], a[2] * b[2])
RDiv(a, b) == Norm(a[1] * b[2], a[2] * b[1])
\* a comparison with NaN is false
RLt(a, b) == a[1] * b[2] < b[1] * a[2]
RLe(a, b) == a[2] # 0 /\ b[2] # 0 /\ a[1] * b[2] <= b[1] * a[2]
RAbs(a) == <<Abs(a[1]), a[2]>>
\* Math.max: NaN when an argument is NaN
RMax(a, b) == IF IsNaN(a) \/ IsNaN(b) THEN NaN ELSE IF RLt(a, b) THEN b ELSE a

-----------------------------------------------------------------------------
(* Configuration and inputs *)

\* FXDataSimulator.symbols, in the order getSymbols() returns them
SymbolList == <<"EURUSD">>
Symbols == {SymbolList[i] : i \in 1..Len(SymbolList)}

\* a symbol a request may name that FXDataSimulator.symbols does not hold
Unlisted == "XXXUSD"

\* MAX_TRADING_VOLUME as configured for the model (the default is 10000)
maxDailyVolume == 120
\* DEFAULT_POSITION_SIZE, the default
defaultPositionSize == 10
\* minTradeValue of calculatePositionSize
minTradeValue == 1
\* the confidence threshold of evaluateSymbol, in tenths
MinConfidenceTenths == 6

\* TradingAlgorithms.maxHistory, as taken for the model (the code keeps 200)
maxHistory == 3

\* the default periods of getCombinedSignal, as taken for the model (the code
\* has smaShort = 10, smaLong = 50, rsiPeriod = 14, bbPeriod = 20)
smaShort == 1
smaLong == 2
rsiPeriod == 2
bbPeriod == 3
\* the other defaults of getCombinedSignal
rsiOverbought == 70
rsiOversold == 30
bbStdDev == 2

\* Math.sqrt is taken to two decimals, of numbers up to (SqrtLimit / SqrtScale) squared
SqrtScale == 100
SqrtLimit == 4000

\* quotes the feed may show: bid < ask, both positive
PricePoints == {[bid |-> Rat(2), ask |-> Rat(3)], [bid |-> Rat(6), ask |-> Rat(7)]}

\* quotes on a finer grid, for the strategies: mids 2, 4, ..
FineQuotes == {[bid |-> Rat(2 * m - 1), ask |-> Rat(2 * m + 1)] : m \in 1..MaxMid}

\* what a strategy may return: hold with confidence 0, or buy or sell with a
\* positive confidence
StrategySignals ==
    {[signal |-> "hold", confidence |-> Zero]} \cup
    [signal : {"buy", "sell"}, confidence : {Norm(3, 10), Norm(6, 10), Rat(1)}]

\* results of getCombinedSignal: hold carries confidence 0
Signals ==
    {[signal |-> "hold", confidence |-> Zero]} \cup
    [signal : {"buy", "sell"}, confidence : {Norm(5, 10), Norm(6, 10), Rat(1)}]

NoRow == [none |-> TRUE]
NoTrade == [none |-> TRUE]
NoSignal == [none |-> TRUE]

Slots == 1..MaxCycles

\* an idle evaluation slot
IdleFrame ==
    [pc |-> "idle", idx |-> 0, signal |-> NoTrade, trade |-> NoTrade, dbId |-> 0,
     cur |-> NoRow, count |-> 0, pnl |-> Zero, active |-> 0, volume |-> Zero,
     day |-> 0, error |-> "none", components |-> <<>>]

\* the mid price of a quote, as the feed computes it and as the engine reads it
\* (currentPrice.mid, priceData.mid)
Mid(p) == RDiv(RAdd(p.bid, p.ask), Rat(2))

\* the threshold test of evaluateSymbol: confidence < 0.6 returns
Confident(sg) == ~RLt(sg.confidence, Norm(MinConfidenceTenths, 10))

-----------------------------------------------------------------------------
(* Pure functions of the algorithms *)

\* the point addPriceData pushes for a price {bid, ask} and a timestamp
HistoryPoint(price, timestamp) ==
    [timestamp |-> timestamp,
     price |-> Mid(price),
     high |-> RAdd(Mid(price), RDiv(RSub(price.ask, price.bid), Rat(2))),
     low |-> RSub(Mid(price), RDiv(RSub(price.ask, price.bid), Rat(2)))]

\* addPriceData with the splice cutting at the wrong end: the newest points
\* beyond maxHistory are dropped and the oldest kept
addPriceDataKeepsOldest(history, price, timestamp) ==
    LET pushed == Append(history, HistoryPoint(price, timestamp))
    IN  IF Len(pushed) > maxHistory
        THEN SubSeq(pushed, 1, maxHistory)
        ELSE pushed

\* addPriceData(symbol, price, timestamp) on the history of the symbol: push,
\* then splice the oldest points off beyond maxHistory
addPriceData(history, price, timestamp) ==
    LET pushed == Append(history, HistoryPoint(price, timestamp))
    IN  IF Len(pushed) > maxHistory
        THEN SubSeq(pushed, Len(pushed) - maxHistory + 1, Len(pushed))
        ELSE pushed

\* addPriceData called n times with the same price data, once per listener
RECURSIVE addPriceDataTimes(_, _, _, _)
addPriceDataTimes(history, price, timestamp, n) ==
    IF n = 0 THEN history
    ELSE addPriceDataTimes(addPriceData(history, price, timestamp), price, timestamp, n - 1)

\* the history of a fresh TradingAlgorithms after the bars of a backtest:
\* runBacktest passes bid = ask = close and the index of the bar as timestamp
RECURSIVE BacktestFeed(_, _)
BacktestFeed(closes, n) ==
    IF n = 0 THEN <<>>
    ELSE addPriceData(BacktestFeed(closes, n - 1),
                      [bid |-> closes[n], ask |-> closes[n]], n)

\* getPriceHistory(symbol, periods): history.slice(-periods)
getPriceHistory(history, periods) ==
    IF Len(history) <= periods THEN history
    ELSE SubSeq(history, Len(history) - periods + 1, Len(history))

\* what calculateSMA and calculateRSI return on too short a history, and what
\* calculateBollingerBands does
Null == <<0, 0, 0>>
NoBands == [none |-> TRUE]

\* the result of a strategy
Signal(signal, confidence) == [signal |-> signal, confidence |-> confidence]
Hold == Signal("hold", Zero)

\* Math.min: NaN when an argument is NaN
RMin(a, b) == IF IsNaN(a) \/ IsNaN(b) THEN NaN ELSE IF RLt(b, a) THEN b ELSE a

RECURSIVE SumPrice(_)
\* history.reduce((acc, item) => acc + item.price, 0)
SumPrice(history) ==
    IF history = <<>> THEN Zero
    ELSE RAdd(SumPrice(SubSeq(history, 1, Len(history) - 1)), history[Len(history)].price)

\* calculateSMA(symbol, period)
calculateSMA(history, period) ==
    LET recent == getPriceHistory(history, period)
    IN  IF Len(recent) < period THEN Null
        ELSE RDiv(SumPrice(recent), Rat(period))

\* !x for the result x of calculateSMA: null and 0 are falsy
Falsy(x) == x = Null \/ x = Zero

\* getSMACrossoverSignal(symbol, shortPeriod, longPeriod)
getSMACrossoverSignal(history, shortPeriod, longPeriod) ==
    LET shortSMA == calculateSMA(history, shortPeriod)
        longSMA == calculateSMA(history, longPeriod)
        prevHistory == SubSeq(history, 1, Len(history) - 1)
        prevShortSMA == RDiv(SumPrice(getPriceHistory(prevHistory, shortPeriod)),
                             Rat(shortPeriod))
        prevLongSMA == RDiv(SumPrice(getPriceHistory(prevHistory, longPeriod)),
                            Rat(longPeriod))
        currentCross == RLt(longSMA, shortSMA)
        prevCross == RLt(prevLongSMA, prevShortSMA)
    IN  IF Falsy(shortSMA) \/ Falsy(longSMA) THEN Hold
        ELSE IF Len(history) < longPeriod + 1 THEN Hold
        ELSE IF currentCross /\ ~prevCross
        THEN Signal("buy", RMin(RMul(RDiv(RSub(shortSMA, longSMA), longSMA), Rat(100)),
                                Rat(1)))
        ELSE IF ~currentCross /\ prevCross
        THEN Signal("sell", RMin(RMul(RDiv(RSub(longSMA, shortSMA), shortSMA), Rat(100)),
                                 Rat(1)))
        ELSE Hold

RECURSIVE SumGain(_, _)
\* the sum of the gains (up = TRUE) or of the losses over the changes of a history
SumGain(history, up) ==
    IF Len(history) < 2 THEN Zero
    ELSE LET n == Len(history)
             change == RSub(history[n].price, history[n - 1].price)
             part == IF up THEN (IF RLt(Zero, change) THEN change ELSE Zero)
                     ELSE (IF RLt(Zero, change) THEN Zero ELSE RAbs(change))
         IN  RAdd(SumGain(SubSeq(history, 1, n - 1), up), part)

\* calculateRSI(symbol, period)
calculateRSI(history, period) ==
    LET recent == getPriceHistory(history, period + 1)
        avgGain == RDiv(SumGain(recent, TRUE), Rat(period))
        avgLoss == RDiv(SumGain(recent, FALSE), Rat(period))
        rs == RDiv(avgGain, avgLoss)
    IN  IF Len(recent) < period + 1 THEN Null
        ELSE IF avgLoss = Zero THEN Rat(100)
        ELSE RSub(Rat(100), RDiv(Rat(100), RAdd(Rat(1), rs)))

\* getRSISignal(symbol, period, overbought, oversold)
getRSISignal(history, period, overbought, oversold) ==
    LET rsi == calculateRSI(history, period)
    IN  IF rsi = Null THEN Hold
        ELSE IF RLt(Rat(overbought), rsi)
        THEN Signal("sell", RMin(RDiv(RSub(rsi, Rat(overbought)), Rat(100 - overbought)),
                                 Rat(1)))
        ELSE IF RLt(rsi, Rat(oversold))
        THEN Signal("buy", RMin(RDiv(RSub(Rat(oversold), rsi), Rat(oversold)), Rat(1)))
        ELSE Hold

RECURSIVE ISqrtBetween(_, _, _)
\* the greatest r in lo..hi with r * r <= n
ISqrtBetween(n, lo, hi) ==
    IF lo = hi THEN lo
    ELSE LET m == (lo + hi + 1) \div 2
         IN  IF m * m <= n THEN ISqrtBetween(n, m, hi) ELSE ISqrtBetween(n, lo, m - 1)

\* Math.sqrt, rounded down to a multiple of 1 / SqrtScale
Sqrt(a) == Norm(ISqrtBetween((a[1] * SqrtScale * SqrtScale) \div a[2], 0, SqrtLimit), SqrtScale)

RECURSIVE SumSquares(_, _)
\* the sum of Math.pow(price - sma, 2) over a history
SumSquares(history, sma) ==
    IF history = <<>> THEN Zero
    ELSE LET n == Len(history)
             diff == RSub(history[n].price, sma)
         IN  RAdd(SumSquares(SubSeq(history, 1, n - 1), sma), RMul(diff, diff))

\* calculateBollingerBands(symbol, period, standardDeviations)
calculateBollingerBands(history, period, standardDeviations) ==
    LET recent == getPriceHistory(history, period)
        sma == RDiv(SumPrice(recent), Rat(period))
        variance == RDiv(SumSquares(recent, sma), Rat(period))
        stdDev == Sqrt(variance)
    IN  IF Len(recent) < period THEN NoBands
        ELSE [middle |-> sma,
              upper |-> RAdd(sma, RMul(Rat(standardDeviations), stdDev)),
              lower |-> RSub(sma, RMul(Rat(standardDeviations), stdDev))]

\* x / y of JavaScript where y may be 0 and x > 0: Infinity, which Math.min
\* cuts to 1
MinOne(x, y) == IF y = Zero THEN Rat(1) ELSE RMin(RDiv(x, y), Rat(1))

\* getBollingerBandsSignal(symbol, period, standardDeviations)
getBollingerBandsSignal(history, period, standardDeviations) ==
    LET bands == calculateBollingerBands(history, period, standardDeviations)
        currentPrice == history[Len(history)].price
    IN  IF bands = NoBands \/ Len(history) = 0 THEN Hold
        ELSE IF RLt(bands.upper, currentPrice)
        THEN Signal("sell", MinOne(RSub(currentPrice, bands.upper),
                                   RSub(bands.upper, bands.middle)))
        ELSE IF RLt(currentPrice, bands.lower)
        THEN Signal("buy", MinOne(RSub(bands.lower, currentPrice),
                                  RSub(bands.middle, bands.lower)))
        ELSE Hold

RECURSIVE SumConfidence(_, _)
\* the number of the first n of the signals that are valid (confidence > 0) and
\* of the given kind, and the sum of their confidences
SumConfidence(signals, kind) ==
    IF signals = <<>> THEN [count |-> 0, sum |-> Zero]
    ELSE LET n == Len(signals)
             rest == SumConfidence(SubSeq(signals, 1, n - 1), kind)
         IN  IF RLt(Zero, signals[n].confidence) /\ signals[n].signal = kind
             THEN [count |-> rest.count + 1, sum |-> RAdd(rest.sum, signals[n].confidence)]
             ELSE rest

\* the vote of getCombinedSignal with the confidence averaged over all valid
\* signals and not over those of the winning side
CombineSignalsAllValid(signals) ==
    LET buySignals == SumConfidence(signals, "buy")
        sellSignals == SumConfidence(signals, "sell")
        mean == RDiv(RAdd(buySignals.sum, sellSignals.sum),
                     Rat(buySignals.count + sellSignals.count))
    IN  IF \A i \in 1..Len(signals) : ~RLt(Zero, signals[i].confidence) THEN Hold
        ELSE IF buySignals.count > sellSignals.count
        THEN Signal("buy", RMin(mean, Rat(1)))
        ELSE IF sellSignals.count > buySignals.count
        THEN Signal("sell", RMin(mean, Rat(1)))
        ELSE Hold

\* the vote of getCombinedSignal over the signals of the three strategies
CombineSignals(signals) ==
    LET buySignals == SumConfidence(signals, "buy")
        sellSignals == SumConfidence(signals, "sell")
    IN  IF \A i \in 1..Len(signals) : ~RLt(Zero, signals[i].confidence) THEN Hold
        ELSE IF buySignals.count > sellSignals.count
        THEN Signal("buy", RMin(RDiv(buySignals.sum, Rat(buySignals.count)), Rat(1)))
        ELSE IF sellSignals.count > buySignals.count
        THEN Signal("sell", RMin(RDiv(sellSignals.sum, Rat(sellSignals.count)), Rat(1)))
        ELSE Hold

\* the signals of the three strategies on a history, under the options
ComponentSignals(history, options) ==
    <<getSMACrossoverSignal(history, options.smaShort, options.smaLong),
      getRSISignal(history, options.rsiPeriod, options.rsiOverbought, options.rsiOversold),
      getBollingerBandsSignal(history, options.bbPeriod, options.bbStdDev)>>

\* getCombinedSignal(symbol, options)
getCombinedSignal(history, options) == CombineSignals(ComponentSignals(history, options))

\* the defaults of the options of getCombinedSignal, with the periods as taken
\* for the model (the code has 10, 50, 14 and 20)
DefaultOptions ==
    [smaShort |-> smaShort, smaLong |-> smaLong, rsiPeriod |-> rsiPeriod,
     rsiOverbought |-> rsiOverbought, rsiOversold |-> rsiOversold,
     bbPeriod |-> bbPeriod, bbStdDev |-> bbStdDev]

-----------------------------------------------------------------------------
(* Pure functions of the backtest *)

\* the starting balance of runBacktest
startingBalance == 100000

\* the points the history of a backtest is to hold before a signal is computed,
\* as documented: more than the RSI and the Bollinger Bands need (the
\* documentation has 30, where they need 15 and 20)
minBacktestHistory == 4

\* the factors open -> close that generateHistoricalData draws with
\* Math.random: a fall and a rise (the code has 1 +- up to volatility)
Changes == {Norm(1, 2), Rat(2)}

\* a fall and a rise after which, at the periods of the model, the RSI is 20:
\* under an oversold level of 25 the RSI votes buy with confidence 0.2 and the
\* golden cross with confidence 1, so that getCombinedSignal returns buy with
\* confidence exactly 0.6
ThresholdChanges == {Norm(1, 2), Norm(5, 4)}

\* the parameters a backtest may be asked with: none, and thresholds of the RSI
\* that it never passes
ParameterSets ==
    {DefaultOptions, [DefaultOptions EXCEPT !.rsiOverbought = 100, !.rsiOversold = 0]}

\* parameters of a backtest that ask for an oversold level of 25 and for
\* Bollinger Bands over more bars than the backtest has, so that the bands
\* never vote
ThresholdOptions ==
    [DefaultOptions EXCEPT !.rsiOversold = 25, !.bbPeriod = MaxThresholdBars + 1]

\* generateHistoricalData: the price the walk starts at,
\* this.prices[symbol] ? (bid + ask) / 2 : 1.0
StartPrice(symbol) == IF symbol \in Symbols THEN Mid(prices[symbol]) ELSE Rat(1)

RECURSIVE Closes(_, _, _)
\* generateHistoricalData: the closes of the first n bars, from the price it
\* starts at and the changes drawn
Closes(price, changes, n) ==
    IF n = 0 THEN <<>>
    ELSE LET before == Closes(price, changes, n - 1)
             open == IF n = 1 THEN price ELSE before[n - 1]
         IN  Append(before, RMul(open, changes[n]))

\* Math.floor of a number that is not negative
Floor(a) == a[1] \div a[2]

\* the locals of runBacktest before the first bar, with a fresh TradingAlgorithms
BacktestStart ==
    [trades |-> <<>>, balance |-> Rat(startingBalance), position |-> 0,
     positionPrice |-> Zero]

\* the body of a loop that sells on a sell signal whether or not it holds a
\* position
BacktestBarSellsFlat(st, closes, i, parameters) ==
    LET close == closes[i]
        signal == getCombinedSignal(BacktestFeed(closes, i), parameters)
        quantity == Floor(RDiv(RMul(st.balance, Norm(1, 10)), close))
        sellValue == RMul(Rat(st.position), close)
        pnl == RSub(sellValue, RMul(Rat(st.position), st.positionPrice))
    IN  IF ~RLt(Norm(6, 10), signal.confidence)
        THEN st
        ELSE IF signal.signal = "buy" /\ st.position <= 0 /\ quantity > 0
        THEN [trades |-> Append(st.trades,
                                [bar |-> i, side |-> "buy", quantity |-> quantity,
                                 price |-> close, value |-> RMul(Rat(quantity), close),
                                 pnl |-> Zero]),
              balance |-> RSub(st.balance, RMul(Rat(quantity), close)),
              position |-> quantity,
              positionPrice |-> close]
        ELSE IF signal.signal = "sell"
        THEN [trades |-> Append(st.trades,
                                [bar |-> i, side |-> "sell", quantity |-> st.position,
                                 price |-> close, value |-> sellValue, pnl |-> pnl]),
              balance |-> RAdd(st.balance, sellValue),
              position |-> 0,
              positionPrice |-> Zero]
        ELSE st

\* the body of the loop of runBacktest for bar i of the given closes
BacktestBar(st, closes, i, parameters) ==
    LET close == closes[i]
        signal == getCombinedSignal(BacktestFeed(closes, i), parameters)
        quantity == Floor(RDiv(RMul(st.balance, Norm(1, 10)), close))
        sellValue == RMul(Rat(st.position), close)
        pnl == RSub(sellValue, RMul(Rat(st.position), st.positionPrice))
    IN  IF ~RLt(Norm(6, 10), signal.confidence)
        THEN st
        ELSE IF signal.signal = "buy" /\ st.position <= 0 /\ quantity > 0
        THEN [trades |-> Append(st.trades,
                                [bar |-> i, side |-> "buy", quantity |-> quantity,
                                 price |-> close, value |-> RMul(Rat(quantity), close),
                                 pnl |-> Zero]),
              balance |-> RSub(st.balance, RMul(Rat(quantity), close)),
              position |-> quantity,
              positionPrice |-> close]
        ELSE IF signal.signal = "sell" /\ st.position > 0
        THEN [trades |-> Append(st.trades,
                                [bar |-> i, side |-> "sell", quantity |-> st.position,
                                 price |-> close, value |-> sellValue, pnl |-> pnl]),
              balance |-> RAdd(st.balance, sellValue),
              position |-> 0,
              positionPrice |-> Zero]
        ELSE st

RECURSIVE BacktestLoop(_, _, _)
\* the locals of runBacktest after the first n bars
BacktestLoop(closes, n, parameters) ==
    IF n = 0 THEN BacktestStart
    ELSE BacktestBar(BacktestLoop(closes, n - 1, parameters), closes, n, parameters)

\* the number of trades with pnl > 0
ProfitableTrades(made) ==
    Cardinality({i \in 1..Len(made) : RLt(Zero, made[i].pnl)})

\* the stats runBacktest returns
BacktestStats(st, lastClose) ==
    LET totalTrades == Len(st.trades)
        finalBalance == RAdd(st.balance, RMul(Rat(st.position), lastClose))
    IN  [totalTrades |-> totalTrades,
         winRate |-> IF totalTrades > 0
                     THEN RMul(Norm(ProfitableTrades(st.trades), totalTrades), Rat(100))
                     ELSE Zero,
         returnPercent |-> RMul(RDiv(RSub(finalBalance, Rat(startingBalance)),
                                     Rat(startingBalance)), Rat(100))]

\* what runBacktest returns for n bars: the inputs, the trades and the stats
BacktestResult(symbol, n, parameters, closes) ==
    LET st == BacktestLoop(closes, n, parameters)
    IN  [symbol |-> symbol, bars |-> n, parameters |-> parameters,
         trades |-> st.trades, stats |-> BacktestStats(st, closes[n])]

\* the histories of the live TradingAlgorithms after a backtest of a symbol
\* that left the history fed in its own TradingAlgorithms: runBacktest makes
\* a new TradingAlgorithms and the live one is not handed the bars
LiveHistoriesAfterBacktestShared(live, symbol, fed) == [live EXCEPT ![symbol] = fed]

LiveHistoriesAfterBacktest(live, symbol, fed) == live

-----------------------------------------------------------------------------
(* Pure functions of the engine *)

\* priceProvider.getPrice(symbol).mid, as the engine reads it.  budget.mid tells
\* whether the quotes of the price provider carry a mid field, as the engine
\* expects of them and as the priceUpdate events do; the quotes FXDataSimulator
\* keeps in this.prices carry none, and the engine then reads undefined
QuoteMid(symbol) == IF budget.mid THEN Mid(prices[symbol]) ELSE NaN

\* calculatePositionSize(symbol, confidence)
calculatePositionSize(symbol, confidence) ==
    LET size == RMul(Rat(defaultPositionSize), confidence)
        minSize == RDiv(Rat(minTradeValue), QuoteMid(symbol))
    IN  RMax(size, minSize)

\* passesRiskChecks(symbol, signal, existingPosition)
passesRiskChecks(symbol, signal, existingPosition) ==
    LET tradeValue == RMul(calculatePositionSize(symbol, signal.confidence),
                           QuoteMid(symbol))
        currentExposure == RAbs(RMul(existingPosition.quantity, existingPosition.avg_price))
    IN  IF ~RLt(currentDailyVolume, Rat(maxDailyVolume)) THEN FALSE
        ELSE IF RLt(RMul(Rat(maxDailyVolume), Norm(1, 10)), tradeValue) THEN FALSE
        ELSE IF existingPosition # NoRow
                /\ RLt(RMul(Rat(maxDailyVolume), Norm(2, 10)),
                       RAdd(currentExposure, tradeValue)) THEN FALSE
        ELSE TRUE

\* the volume check of executeBuy: TRUE when the order is refused
ExceedsDailyLimit(volume, value) == RLt(Rat(maxDailyVolume), RAdd(volume, value))

\* the halt test of evaluateTradingOpportunities
VolumeLimitReached(volume) == ~RLt(volume, Rat(maxDailyVolume))

\* isVolumeExceeded(): currentDailyVolume >= maxDailyVolume, on the numerator and
\* the denominator of the volume
isVolumeExceeded == currentDailyVolume[1] >= maxDailyVolume * currentDailyVolume[2]

\* the columns updatePosition writes, given the row it read (quantity is signed)
NewPositionRow(currentPosition, quantity, price, isClosing) ==
    IF currentPosition = NoRow
    THEN [quantity |-> quantity, avg_price |-> price,
          total_value |-> RMul(quantity, price)]
    ELSE IF isClosing
    THEN LET newQuantity == RAdd(currentPosition.quantity, quantity)
             newAvgPrice == IF newQuantity = Zero THEN Zero ELSE currentPosition.avg_price
         IN  [quantity |-> newQuantity, avg_price |-> newAvgPrice,
              total_value |-> RMul(newQuantity, newAvgPrice)]
    ELSE LET oldValue == RMul(currentPosition.quantity, currentPosition.avg_price)
             newValue == RMul(quantity, price)
             newTotalValue == RAdd(oldValue, newValue)
             newQuantity == RAdd(currentPosition.quantity, quantity)
             newAvgPrice == IF newQuantity # Zero THEN RDiv(newTotalValue, newQuantity)
                            ELSE Zero
         IN  [quantity |-> newQuantity, avg_price |-> newAvgPrice,
              total_value |-> newTotalValue]

\* SELECT COUNT(*) FROM trades WHERE DATE(timestamp) = day
CountTrades(day) == Cardinality({i \in 1..Len(trades) : trades[i].date = day})

RECURSIVE SumPnl(_, _)
\* SELECT SUM(CASE WHEN side = 'buy' THEN -value ELSE value END) FROM trades
\* WHERE DATE(timestamp) = day, over the first n rows
SumPnl(n, day) ==
    IF n = 0 THEN Zero
    ELSE IF trades[n].date # day THEN SumPnl(n - 1, day)
    ELSE RAdd(SumPnl(n - 1, day),
              IF trades[n].side = "buy" THEN RNeg(trades[n].value) ELSE trades[n].value)

\* SELECT COUNT(*) FROM positions WHERE quantity != 0
CountActivePositions ==
    Cardinality({s \in Symbols : positions[s] # NoRow /\ positions[s].quantity # Zero})

-----------------------------------------------------------------------------
(* State after `new TradingEngine(...)`: the database is connected and empty *)
(* for today, the feed is already running, loadCurrentVolume() is pending.   *)

\* the engine and the tables
EngineConstructed ==
    /\ isActive = FALSE
    /\ tradingInterval = FALSE
    /\ listeners = 0
    /\ currentDailyVolume = Zero
    /\ riskManagement \in BOOLEAN
    /\ loadPending = TRUE
    /\ volumeLimitLogged = FALSE
    /\ trades = <<>>
    /\ positions = [s \in Symbols |-> NoRow]
    /\ stats = NoRow
    /\ emitted = {}
    /\ faults = 0
    /\ overlaps = 0
    /\ today = 0
    /\ cycle = [c \in Slots |-> IdleFrame]
    /\ tickSeq = 0
    /\ added = [s \in Symbols |-> <<>>]
    /\ marks = <<>>
    /\ backtestHistory = <<>>
    /\ runs = <<>>

Constructed ==
    /\ EngineConstructed
    /\ prices \in [Symbols -> PricePoints]
    /\ priceHistory = [s \in Symbols |-> <<>>]
    /\ lastSignal = NoSignal

\* overlapping cycles and rejecting statements, few trades
Init ==
    /\ Constructed
    /\ budget = [trades |-> MaxTrades, faults |-> MaxFaults, overlaps |-> MaxOverlaps,
                 ticks |-> 0, mid |-> TRUE, days |-> 0, algos |-> FALSE,
                 bars |-> MaxBars, runs |-> 0,
                 requests |-> Symbols,
                 changes |-> Changes, parameters |-> ParameterSets]

\* one cycle at a time and no rejecting statement, more trades
SerialInit ==
    /\ Constructed
    /\ budget = [trades |-> MaxSerialTrades, faults |-> 0, overlaps |-> 0, ticks |-> 0,
                 mid |-> TRUE, days |-> 0, algos |-> FALSE,
                 bars |-> MaxBars, runs |-> 0,
                 requests |-> Symbols,
                 changes |-> Changes, parameters |-> ParameterSets]

-----------------------------------------------------------------------------
(* Helpers of the actions *)

\* the quotes the feed moves on
Quotes == IF budget.algos THEN FineQuotes ELSE PricePoints

Symbol(c) == SymbolList[cycle[c].idx]

\* trade attempts signalled and not yet settled
PendingAttempts == Cardinality({c \in Slots : cycle[c].pc \in {"getPosition", "insert"}})

\* the symbols from index i on, each with the signals the three strategies give
\* on its history
Evaluated(i) ==
    {[IdleFrame EXCEPT
         !.pc = "getPosition", !.idx = j,
         !.components = ComponentSignals(priceHistory[SymbolList[j]], DefaultOptions)] :
        j \in i..Len(SymbolList)}

\* the signal getCombinedSignal makes of the signals of the strategies
WithSignal(f) == [f EXCEPT !.signal = CombineSignals(f.components)]

\* the first of the evaluated symbols whose combined signal is confident
FirstConfident(evaluated) ==
    {f \in evaluated :
        /\ Confident(WithSignal(f).signal)
        /\ \A g \in evaluated : g.idx < f.idx => ~Confident(WithSignal(g).signal)}

\* Where an evaluation cycle is once the symbols before index i are dealt with:
\* evaluateSymbol returns at once for every symbol whose combined signal has
\* confidence < 0.6; for the first confident one it awaits the SELECT of the
\* existing position; past the last symbol the cycle ends.
\* Where the strategies are followed (budget.algos) the signal is the one
\* getCombinedSignal computes from the history of the symbol; elsewhere it is
\* any signal getCombinedSignal can return.
FramesFrom(i) ==
    IF ~budget.algos
    THEN {IdleFrame} \cup
         {[IdleFrame EXCEPT !.pc = "getPosition", !.idx = j, !.signal = sg] :
             j \in {k \in i..Len(SymbolList) : Len(trades) + PendingAttempts < budget.trades},
             sg \in {x \in Signals : Confident(x)}}
    ELSE IF Len(trades) + PendingAttempts >= budget.trades
    THEN {IdleFrame}
    ELSE UNION {IF FirstConfident(evaluated) = {}
                THEN {IdleFrame}
                ELSE {WithSignal(f) : f \in FirstConfident(evaluated)} :
                   evaluated \in {Evaluated(i)}}

\* the for loop of evaluateTradingOpportunities resumes after symbol cycle[c].idx
ResumeLoop(c) ==
    \E f \in FramesFrom(cycle[c].idx + 1) : cycle' = [cycle EXCEPT ![c] = f]

\* a statement rejected: console.error logs it and the execution (or, for the
\* SELECT of evaluateSymbol, the evaluation of the symbol) is given up
Catch(c, operation) ==
    /\ faults < budget.faults
    /\ faults' = faults + 1
    /\ cycle' = [cycle EXCEPT ![c] = [IdleFrame EXCEPT !.pc = "caught",
                                                        !.idx = cycle[c].idx,
                                                        !.error = operation,
                                                        !.dbId = cycle[c].dbId]]

\* a stop() that forgets clearInterval
StopEngineKeepsTimer ==
    IF ~isActive
    THEN UNCHANGED <<isActive, tradingInterval>>
    ELSE /\ isActive' = FALSE
         /\ UNCHANGED tradingInterval

\* stop()
StopEngine ==
    IF ~isActive
    THEN UNCHANGED <<isActive, tradingInterval>>
    ELSE /\ isActive' = FALSE
         /\ tradingInterval' = FALSE

-----------------------------------------------------------------------------
(* Operations *)

\* POST /api/trading/start -> start()
Start ==
    /\ ~isActive
    /\ listeners < MaxStarts
    /\ isActive' = TRUE
    /\ listeners' = listeners + 1
    /\ tradingInterval' = TRUE
    /\ UNCHANGED <<currentDailyVolume, riskManagement, loadPending, volumeLimitLogged,
                   prices, trades, positions, stats, emitted, faults, overlaps, budget, today, algoVars, cycle, feedVars>>

\* POST /api/trading/stop, AlphaFXTraderApp.stop -> stop()
Stop ==
    /\ isActive
    /\ StopEngine
    /\ UNCHANGED <<listeners, currentDailyVolume, riskManagement, loadPending,
                   volumeLimitLogged, prices, trades, positions, stats, emitted,
                   faults, overlaps, budget, today, algoVars, cycle, feedVars>>

\* simulateNewsEvent(symbol, impact): the price of the symbol moves and
\* 'newsEvent' is emitted, an event nothing subscribes to
NewsEvent(s) ==
    /\ \E p \in Quotes \ {prices[s]} : prices' = [prices EXCEPT ![s] = p]
    /\ UNCHANGED <<isActive, tradingInterval, listeners, currentDailyVolume,
                   riskManagement, loadPending, volumeLimitLogged, trades, positions,
                   stats, emitted, faults, overlaps, budget, today, algoVars, cycle,
                   feedVars>>

\* loadCurrentVolume() resumes with today's trading_stats row
LoadCurrentVolume ==
    /\ loadPending
    /\ loadPending' = FALSE
    /\ currentDailyVolume' = IF stats # NoRow THEN stats.total_volume ELSE Zero
    /\ UNCHANGED <<isActive, tradingInterval, listeners, riskManagement,
                   volumeLimitLogged, prices, trades, positions, stats, emitted,
                   faults, overlaps, budget, today, algoVars, cycle, feedVars>>

\* loadCurrentVolume(): the SELECT rejects
LoadCurrentVolumeError ==
    /\ loadPending
    /\ faults < budget.faults
    /\ faults' = faults + 1
    /\ loadPending' = FALSE
    /\ currentDailyVolume' = Zero
    /\ UNCHANGED <<isActive, tradingInterval, listeners, riskManagement,
                   volumeLimitLogged, prices, trades, positions, stats, emitted,
                   overlaps, budget, today, algoVars, cycle, feedVars>>

\* FXDataSimulator.updatePrice(symbol): a new quote, emitted as priceUpdate.
\* Every listener the engine registered runs onPriceUpdate up to its first
\* await: addPriceData, then the SELECT of updatePositionPnL is issued.
\* Where the tick bus is not followed (budget.ticks = 0) one step stands for a
\* run of ticks and the history and the pnl column, which nothing else in the
\* engine reads, are left out.
UpdatePrice(s) ==
    /\ \E p \in Quotes \ {prices[s]} :
          /\ prices' = [prices EXCEPT ![s] = p]
          /\ IF budget.ticks = 0
             THEN UNCHANGED feedVars
             ELSE /\ tickSeq < budget.ticks
                  /\ tickSeq' = tickSeq + 1
                  /\ priceHistory' = [priceHistory EXCEPT ![s] =
                        addPriceDataTimes(@, p, tickSeq + 1, listeners)]
                  /\ added' = [added EXCEPT ![s] =
                        @ \o [i \in 1..listeners |-> HistoryPoint(p, tickSeq + 1)]]
                  /\ marks' = marks \o [i \in 1..listeners |->
                        [symbol |-> s, currentPrice |-> Mid(p), pc |-> "read",
                         pnl |-> Zero]]
                  /\ UNCHANGED backtestHistory
    /\ UNCHANGED <<isActive, tradingInterval, listeners, currentDailyVolume,
                   riskManagement, loadPending, volumeLimitLogged, trades, positions,
                   stats, emitted, faults, overlaps, budget, today, algoVars, cycle>>

\* a sequence without its i-th element
Without(seq, i) == SubSeq(seq, 1, i - 1) \o SubSeq(seq, i + 1, Len(seq))

\* updatePositionPnL resumes with the position row: without a row, or with
\* quantity 0, it is done; otherwise the UPDATE of the pnl column is issued
MarkReadDone(i) ==
    /\ marks[i].pc = "read"
    /\ LET position == positions[marks[i].symbol]
       IN  IF position # NoRow /\ position.quantity # Zero
           THEN marks' = [marks EXCEPT ![i].pc = "write",
                            ![i].pnl = RMul(RSub(marks[i].currentPrice, position.avg_price),
                                            position.quantity)]
           ELSE marks' = Without(marks, i)
    /\ UNCHANGED <<isActive, tradingInterval, listeners, currentDailyVolume,
                   riskManagement, loadPending, volumeLimitLogged, prices, trades,
                   positions, stats, emitted, faults, overlaps, budget, today, algoVars, cycle,
                   tickSeq, priceHistory, added, backtestHistory>>

\* UPDATE positions SET pnl = ? WHERE symbol = ? completes
MarkWriteDone(i) ==
    /\ marks[i].pc = "write"
    /\ positions' = [positions EXCEPT ![marks[i].symbol] =
          IF @ = NoRow THEN @ ELSE [@ EXCEPT !.pnl = marks[i].pnl]]
    /\ marks' = Without(marks, i)
    /\ UNCHANGED <<isActive, tradingInterval, listeners, currentDailyVolume,
                   riskManagement, loadPending, volumeLimitLogged, prices, trades,
                   stats, emitted, faults, overlaps, budget, today, algoVars, cycle,
                   tickSeq, priceHistory, added, backtestHistory>>

\* getCombinedSignal from the point where it holds the signals of the three
\* strategies: the vote
Vote ==
    /\ lastSignal # NoSignal
    /\ lastSignal.result = NoSignal
    /\ lastSignal' = [lastSignal EXCEPT !.result = CombineSignals(lastSignal.components)]
    /\ UNCHANGED <<isActive, tradingInterval, listeners, currentDailyVolume,
                   riskManagement, loadPending, volumeLimitLogged, prices, trades,
                   positions, stats, emitted, faults, overlaps, budget, today, cycle,
                   feedVars, runs>>

\* GET /api/signals/:symbol -> getCombinedSignal(symbol)
GetSignal(s) ==
    /\ lastSignal' = [symbol |-> s,
                      components |-> ComponentSignals(priceHistory[s], DefaultOptions),
                      result |-> getCombinedSignal(priceHistory[s], DefaultOptions)]
    /\ UNCHANGED <<isActive, tradingInterval, listeners, currentDailyVolume,
                   riskManagement, loadPending, volumeLimitLogged, prices, trades,
                   positions, stats, emitted, faults, overlaps, budget, today, cycle,
                   feedVars, runs>>

\* POST /api/backtest -> runBacktest(symbol, startDate, endDate, algorithm,
\* parameters): generateHistoricalData starts at the mid of the live price and
\* draws every change with Math.random; the loop over the bars has no await and
\* its TradingAlgorithms is fresh.  n is the number of bars between startDate
\* and endDate.  Where the results are not followed (budget.runs = 0) only the
\* history of the TradingAlgorithms of the backtest is kept.  The symbol is
\* any the request names (budget.requests).
RunBacktest ==
    /\ budget.runs = 0 \/ Len(runs) < budget.runs
    /\ \E s \in budget.requests, n \in 1..budget.bars, parameters \in budget.parameters :
          \E changes \in [1..n -> budget.changes] :
             \E closes \in {Closes(StartPrice(s), changes, n)} :
                /\ backtestHistory' = BacktestFeed(closes, n)
                /\ priceHistory' = LiveHistoriesAfterBacktest(priceHistory, s,
                                                             backtestHistory')
                /\ IF budget.runs = 0
                   THEN UNCHANGED runs
                   ELSE runs' = Append(runs, BacktestResult(s, n, parameters, closes))
    /\ UNCHANGED <<isActive, tradingInterval, listeners, currentDailyVolume,
                   riskManagement, loadPending, volumeLimitLogged, prices, trades,
                   positions, stats, emitted, faults, overlaps, budget, today,
                   lastSignal, cycle, tickSeq, added, marks>>

\* Midnight UTC passes: new Date().toISOString().split('T')[0] and DATE of
\* CURRENT_TIMESTAMP give the next date from now on.  stats is the row of
\* trading_stats of the current date; the new date has none yet
DateChange ==
    /\ today < budget.days
    /\ today' = today + 1
    /\ stats' = NoRow
    /\ UNCHANGED <<isActive, tradingInterval, listeners, currentDailyVolume,
                   riskManagement, loadPending, volumeLimitLogged, prices, trades,
                   positions, emitted, faults, overlaps, budget, algoVars, cycle,
                   feedVars>>

\* the setInterval callback: evaluateTradingOpportunities() up to its first await
TimerFire ==
    /\ tradingInterval
    /\ IF ~isActive \/ VolumeLimitReached(currentDailyVolume)
       THEN /\ IF VolumeLimitReached(currentDailyVolume)
               THEN StopEngine
               ELSE UNCHANGED <<isActive, tradingInterval>>
            /\ UNCHANGED <<cycle, overlaps>>
       ELSE /\ \E c \in Slots :
                 /\ cycle[c].pc = "idle"
                 /\ \A d \in Slots : cycle[d].pc = "idle" => c <= d
                 /\ \E f \in FramesFrom(1) :
                       /\ cycle' = [cycle EXCEPT ![c] = f]
                       /\ IF f # IdleFrame /\ \E d \in Slots : cycle[d].pc # "idle"
                          THEN overlaps < budget.overlaps /\ overlaps' = overlaps + 1
                          ELSE UNCHANGED overlaps
            /\ UNCHANGED <<isActive, tradingInterval>>
    /\ UNCHANGED <<listeners, currentDailyVolume, riskManagement, loadPending,
                   volumeLimitLogged, prices, trades, positions, stats, emitted,
                   faults,
                   budget, today, algoVars, feedVars>>

\* The trade evaluateSymbol hands to executeBuy or executeSell when it resumes
\* with the existing position: none when the risk checks fail or when the
\* signal does not fit the position; the price is the ask for a buy, the bid
\* for a sell
Proposal(c) ==
    LET symbol == Symbol(c)
        signal == cycle[c].signal
        existingPosition == positions[symbol]
        positionSize == calculatePositionSize(symbol, signal.confidence)
    IN  IF riskManagement /\ ~passesRiskChecks(symbol, signal, existingPosition)
        THEN NoTrade
        ELSE IF signal.signal = "buy"
                /\ (existingPosition = NoRow \/ RLe(existingPosition.quantity, Zero))
        THEN [symbol |-> symbol, side |-> "buy", quantity |-> positionSize,
              price |-> prices[symbol].ask,
              value |-> RMul(positionSize, prices[symbol].ask)]
        ELSE IF signal.signal = "sell"
                /\ (existingPosition = NoRow \/ RLe(Zero, existingPosition.quantity))
        THEN [symbol |-> symbol, side |-> "sell", quantity |-> positionSize,
              price |-> prices[symbol].bid,
              value |-> RMul(positionSize, prices[symbol].bid)]
        ELSE NoTrade

\* executeBuy refuses the trade: "Buy order would exceed daily volume limit";
\* executeSell has no such check
Refused(trade) ==
    trade.side = "buy" /\ ExceedsDailyLimit(currentDailyVolume, trade.value)

\* evaluateSymbol resumes with the existing position and goes on, through the
\* risk checks and the sizing, into executeBuy or executeSell up to the INSERT
GetPositionDone(c) ==
    /\ cycle[c].pc = "getPosition"
    /\ LET trade == Proposal(c)
       IN  IF trade = NoTrade
           THEN ResumeLoop(c) /\ UNCHANGED volumeLimitLogged
           ELSE IF Refused(trade)
           THEN ResumeLoop(c) /\ volumeLimitLogged' = TRUE
           ELSE /\ cycle' = [cycle EXCEPT ![c].pc = "insert", ![c].trade = trade]
                /\ UNCHANGED volumeLimitLogged
    /\ UNCHANGED <<isActive, tradingInterval, listeners, currentDailyVolume,
                   riskManagement, loadPending, prices, trades, positions, stats,
                   emitted, faults, overlaps, budget, today, algoVars, feedVars>>

\* the columns quantity, price and value of trades are REAL NOT NULL, and
\* SQLite binds NaN as NULL
Storable(trade) == ~IsNaN(trade.quantity) /\ ~IsNaN(trade.price) /\ ~IsNaN(trade.value)

\* the row of a trade: timestamp defaults to CURRENT_TIMESTAMP, of which the
\* statistics read the date
TradeRow(trade, date) ==
    [symbol |-> trade.symbol, side |-> trade.side, quantity |-> trade.quantity,
     price |-> trade.price, value |-> trade.value, date |-> date]

\* the INSERT INTO trades of executeBuy / executeSell succeeds
InsertDone(c) ==
    /\ cycle[c].pc = "insert"
    /\ Storable(cycle[c].trade)
    /\ trades' = Append(trades, TradeRow(cycle[c].trade, today))
    /\ cycle' = [cycle EXCEPT ![c].pc = "readPosition", ![c].dbId = Len(trades) + 1]
    /\ UNCHANGED <<isActive, tradingInterval, listeners, currentDailyVolume,
                   riskManagement, loadPending, volumeLimitLogged, prices, positions,
                   stats, emitted, faults, overlaps, budget, today, algoVars, feedVars>>

\* the INSERT INTO trades fails on a NOT NULL constraint: the catch of
\* executeBuy / executeSell logs the error and returns null
InsertNotNull(c) ==
    /\ cycle[c].pc = "insert"
    /\ ~Storable(cycle[c].trade)
    /\ cycle' = [cycle EXCEPT ![c] = [IdleFrame EXCEPT !.pc = "caught",
                                                        !.idx = cycle[c].idx,
                                                        !.error = "insert"]]
    /\ UNCHANGED <<isActive, tradingInterval, listeners, currentDailyVolume,
                   riskManagement, loadPending, volumeLimitLogged, prices, trades,
                   positions, stats, emitted, faults, overlaps, budget, today, algoVars, feedVars>>

\* updatePosition resumes with the current row of the symbol
ReadPositionDone(c) ==
    /\ cycle[c].pc = "readPosition"
    /\ cycle' = [cycle EXCEPT ![c].pc = "writePosition", ![c].cur = positions[Symbol(c)]]
    /\ UNCHANGED <<isActive, tradingInterval, listeners, currentDailyVolume,
                   riskManagement, loadPending, volumeLimitLogged, prices, trades,
                   positions, stats, emitted, faults, overlaps, budget, today, algoVars, feedVars>>

\* the signed quantity and the isClosing flag executeBuy / executeSell pass
SignedQuantity(trade) == IF trade.side = "buy" THEN trade.quantity ELSE RNeg(trade.quantity)
IsClosing(trade) == trade.side = "sell"

\* the INSERT or UPDATE of updatePosition succeeds; back in executeBuy /
\* executeSell the daily volume is raised and updateTradingStats starts
WritePositionDone(c) ==
    /\ cycle[c].pc = "writePosition"
    /\ LET symbol == Symbol(c)
           trade == cycle[c].trade
           new == NewPositionRow(cycle[c].cur, SignedQuantity(trade), trade.price,
                                 IsClosing(trade))
       IN  /\ cycle[c].cur = NoRow => positions[symbol] = NoRow
           /\ positions' = [positions EXCEPT ![symbol] =
                 [quantity |-> new.quantity, avg_price |-> new.avg_price,
                  total_value |-> new.total_value,
                  pnl |-> IF positions[symbol] = NoRow THEN Zero
                          ELSE positions[symbol].pnl]]
           /\ currentDailyVolume' = RAdd(currentDailyVolume, trade.value)
    /\ cycle' = [cycle EXCEPT ![c].pc = "statsCount", ![c].cur = NoRow,
                               ![c].day = today]
    /\ UNCHANGED <<isActive, tradingInterval, listeners, riskManagement, loadPending,
                   volumeLimitLogged, prices, trades, stats, emitted, faults, overlaps, budget, today, algoVars, feedVars>>

\* the INSERT of updatePosition hits UNIQUE(symbol): another execution created
\* the row meanwhile; the catch of executeBuy / executeSell returns null
WritePositionConflict(c) ==
    /\ cycle[c].pc = "writePosition"
    /\ cycle[c].cur = NoRow
    /\ positions[Symbol(c)] # NoRow
    /\ cycle' = [cycle EXCEPT ![c] = [IdleFrame EXCEPT !.pc = "caught",
                                                        !.idx = cycle[c].idx,
                                                        !.error = "position",
                                                        !.dbId = cycle[c].dbId]]
    /\ UNCHANGED <<isActive, tradingInterval, listeners, currentDailyVolume,
                   riskManagement, loadPending, volumeLimitLogged, prices, trades,
                   positions, stats, emitted, faults, overlaps, budget, today, algoVars, feedVars>>

\* updateTradingStats: the three SELECTs, then the INSERT OR REPLACE, whose
\* parameters are read when it is issued
StatsCountDone(c) ==
    /\ cycle[c].pc = "statsCount"
    /\ cycle' = [cycle EXCEPT ![c].pc = "statsPnl", ![c].count = CountTrades(cycle[c].day)]
    /\ UNCHANGED <<isActive, tradingInterval, listeners, currentDailyVolume,
                   riskManagement, loadPending, volumeLimitLogged, prices, trades,
                   positions, stats, emitted, faults, overlaps, budget, today, algoVars, feedVars>>

StatsPnlDone(c) ==
    /\ cycle[c].pc = "statsPnl"
    /\ cycle' = [cycle EXCEPT ![c].pc = "statsActive", ![c].pnl = SumPnl(Len(trades), cycle[c].day)]
    /\ UNCHANGED <<isActive, tradingInterval, listeners, currentDailyVolume,
                   riskManagement, loadPending, volumeLimitLogged, prices, trades,
                   positions, stats, emitted, faults, overlaps, budget, today, algoVars, feedVars>>

StatsActiveDone(c) ==
    /\ cycle[c].pc = "statsActive"
    /\ cycle' = [cycle EXCEPT ![c].pc = "statsWrite", ![c].active = CountActivePositions,
                               ![c].volume = currentDailyVolume]
    /\ UNCHANGED <<isActive, tradingInterval, listeners, currentDailyVolume,
                   riskManagement, loadPending, volumeLimitLogged, prices, trades,
                   positions, stats, emitted, faults, overlaps, budget, today, algoVars, feedVars>>

\* the INSERT OR REPLACE succeeds; executeBuy / executeSell emits tradeExecuted
\* and returns the trade, and the loop of the cycle goes on
StatsWriteDone(c) ==
    /\ cycle[c].pc = "statsWrite"
    /\ stats' = IF cycle[c].day = today
                THEN [total_volume |-> cycle[c].volume, total_trades |-> cycle[c].count,
                      total_pnl |-> cycle[c].pnl, active_positions |-> cycle[c].active]
                ELSE stats
    /\ emitted' = emitted \cup {cycle[c].dbId}
    /\ ResumeLoop(c)
    /\ UNCHANGED <<isActive, tradingInterval, listeners, currentDailyVolume,
                   riskManagement, loadPending, volumeLimitLogged, prices, trades,
                   positions, faults, overlaps, budget, today, algoVars, feedVars>>

\* after the catch: executeBuy / executeSell has returned null (or the loop of
\* the cycle has caught the rejection of evaluateSymbol) and the loop goes on
Caught(c) ==
    /\ cycle[c].pc = "caught"
    /\ ResumeLoop(c)
    /\ UNCHANGED <<isActive, tradingInterval, listeners, currentDailyVolume,
                   riskManagement, loadPending, volumeLimitLogged, prices, trades,
                   positions, stats, emitted, faults, overlaps, budget, today, algoVars, feedVars>>

-----------------------------------------------------------------------------
(* Database errors: an awaited statement may reject *)

\* the SELECT of evaluateSymbol rejects: caught by the loop of the cycle
GetPositionError(c) ==
    /\ cycle[c].pc = "getPosition"
    /\ Catch(c, "evaluating")
    /\ UNCHANGED <<isActive, tradingInterval, listeners, currentDailyVolume,
                   riskManagement, loadPending, volumeLimitLogged, prices, trades,
                   positions, stats, emitted, overlaps, budget, today, algoVars, feedVars>>

\* the INSERT INTO trades rejects in an executeBuy / executeSell that raised
\* the daily volume before its try block instead of after updatePosition
InsertErrorVolumeRaised(c) ==
    /\ cycle[c].pc = "insert"
    /\ Catch(c, "insert")
    /\ currentDailyVolume' = RAdd(currentDailyVolume, cycle[c].trade.value)
    /\ UNCHANGED <<isActive, tradingInterval, listeners, riskManagement, loadPending,
                   volumeLimitLogged, prices, trades, positions, stats, emitted,
                   overlaps, budget, today, algoVars, feedVars>>

\* the INSERT INTO trades rejects: the catch of executeBuy / executeSell returns null
InsertError(c) ==
    /\ cycle[c].pc = "insert"
    /\ Catch(c, "insert")
    /\ UNCHANGED <<isActive, tradingInterval, listeners, currentDailyVolume,
                   riskManagement, loadPending, volumeLimitLogged, prices, trades,
                   positions, stats, emitted, overlaps, budget, today, algoVars, feedVars>>

\* a statement of updatePosition rejects
PositionError(c) ==
    /\ cycle[c].pc \in {"readPosition", "writePosition"}
    /\ Catch(c, "position")
    /\ UNCHANGED <<isActive, tradingInterval, listeners, currentDailyVolume,
                   riskManagement, loadPending, volumeLimitLogged, prices, trades,
                   positions, stats, emitted, overlaps, budget, today, algoVars, feedVars>>

\* a statement of updateTradingStats rejects in an executeBuy / executeSell
\* that emits tradeExecuted before it awaits updateTradingStats
StatsErrorAfterEmit(c) ==
    /\ cycle[c].pc \in {"statsCount", "statsPnl", "statsActive", "statsWrite"}
    /\ Catch(c, "stats")
    /\ emitted' = emitted \cup {cycle[c].dbId}
    /\ UNCHANGED <<isActive, tradingInterval, listeners, currentDailyVolume,
                   riskManagement, loadPending, volumeLimitLogged, prices, trades,
                   positions, stats, overlaps, budget, today, algoVars, feedVars>>

\* a statement of updateTradingStats rejects
StatsError(c) ==
    /\ cycle[c].pc \in {"statsCount", "statsPnl", "statsActive", "statsWrite"}
    /\ Catch(c, "stats")
    /\ UNCHANGED <<isActive, tradingInterval, listeners, currentDailyVolume,
                   riskManagement, loadPending, volumeLimitLogged, prices, trades,
                   positions, stats, emitted, overlaps, budget, today, algoVars, feedVars>>

-----------------------------------------------------------------------------
(* Specifications *)

\* the steps of the engine when no database statement rejects on its own
Run ==
    \/ Start
    \/ Stop
    \/ LoadCurrentVolume
    \/ TimerFire
    \/ \E s \in Symbols : UpdatePrice(s)
    \/ \E c \in Slots : GetPositionDone(c)
    \/ \E c \in Slots : InsertDone(c)
    \/ \E c \in Slots : ReadPositionDone(c)
    \/ \E c \in Slots : WritePositionDone(c)
    \/ \E c \in Slots : WritePositionConflict(c)
    \/ \E c \in Slots : StatsCountDone(c)
    \/ \E c \in Slots : StatsPnlDone(c)
    \/ \E c \in Slots : StatsActiveDone(c)
    \/ \E c \in Slots : StatsWriteDone(c)
    \/ \E c \in Slots : Caught(c)

\* the rejections of database statements
Fault ==
    \/ LoadCurrentVolumeError
    \/ \E c \in Slots : GetPositionError(c)
    \/ \E c \in Slots : InsertError(c)
    \/ \E c \in Slots : PositionError(c)
    \/ \E c \in Slots : StatsError(c)

Next == Run \/ Fault

Spec == Init /\ [][Next]_vars

\* the steps of cycles that run one after the other
SerialNext ==
    \/ Start
    \/ Stop
    \/ LoadCurrentVolume
    \/ TimerFire
    \/ \E s \in Symbols : UpdatePrice(s)
    \/ \E c \in Slots : GetPositionDone(c)
    \/ \E c \in Slots : InsertDone(c)
    \/ \E c \in Slots : ReadPositionDone(c)
    \/ \E c \in Slots : WritePositionDone(c)
    \/ \E c \in Slots : StatsCountDone(c)
    \/ \E c \in Slots : StatsPnlDone(c)
    \/ \E c \in Slots : StatsActiveDone(c)
    \/ \E c \in Slots : StatsWriteDone(c)

SerialSpec == SerialInit /\ [][SerialNext]_vars

\* the statements of an execution, from the INSERT INTO trades on
ExecutionStep(c) ==
    \/ InsertDone(c)
    \/ ReadPositionDone(c)
    \/ WritePositionDone(c)
    \/ StatsCountDone(c)
    \/ StatsPnlDone(c)
    \/ StatsActiveDone(c)
    \/ StatsWriteDone(c)

\* one cycle at a time, no rejecting statement, few trades
LiveInit ==
    /\ Constructed
    /\ budget = [trades |-> MaxTrades, faults |-> 0, overlaps |-> 0, ticks |-> 0,
                 mid |-> TRUE, days |-> 0, algos |-> FALSE,
                 bars |-> MaxBars, runs |-> 0,
                 requests |-> Symbols,
                 changes |-> Changes, parameters |-> ParameterSets]

\* setInterval keeps calling back while the timer exists, and every statement
\* the database was given completes.  The fairness of GetPositionDone(c), which
\* is enabled exactly while the cycle awaits the SELECT of evaluateSymbol, is
\* written out.
LiveSpec ==
    /\ LiveInit
    /\ [][SerialNext]_vars
    /\ WF_vars(TimerFire)
    /\ WF_vars(LoadCurrentVolume)
    /\ \A c \in Slots : []<>(cycle[c].pc # "getPosition") /\ WF_vars(ExecutionStep(c))

\* the marks of the positions followed: one cycle at a time, no rejecting
\* statement, few ticks
MarkInit ==
    /\ Constructed
    /\ budget = [trades |-> MaxMarkTrades, faults |-> 0, overlaps |-> 0,
                 ticks |-> MaxMarkTicks, mid |-> TRUE, days |-> 0, algos |-> FALSE,
                 bars |-> MaxBars, runs |-> 0,
                 requests |-> Symbols,
                 changes |-> Changes, parameters |-> ParameterSets]

MarkNext ==
    \/ SerialNext
    \/ \E i \in 1..Len(marks) : MarkReadDone(i)
    \/ \E i \in 1..Len(marks) : MarkWriteDone(i)

MarkSpec == MarkInit /\ [][MarkNext]_vars

\* the history of the algorithms followed: the algorithms give no confident
\* signal, so that no trade is attempted
HistoryInit ==
    /\ Constructed
    /\ budget = [trades |-> 0, faults |-> 0, overlaps |-> 0, ticks |-> MaxTicks,
                 mid |-> TRUE, days |-> 0, algos |-> FALSE,
                 bars |-> MaxBars, runs |-> 0,
                 requests |-> Symbols,
                 changes |-> Changes, parameters |-> ParameterSets]

HistoryNext ==
    \/ Start
    \/ Stop
    \/ LoadCurrentVolume
    \/ TimerFire
    \/ \E s \in Symbols : UpdatePrice(s)
    \/ \E i \in 1..Len(marks) : MarkReadDone(i)
    \/ RunBacktest

HistorySpec == HistoryInit /\ [][HistoryNext]_vars

\* the feed with its news events, and an engine that follows the ticks
NewsInit ==
    /\ Constructed
    /\ budget = [trades |-> 0, faults |-> 0, overlaps |-> 0, ticks |-> MaxNewsTicks,
                 mid |-> TRUE, days |-> 0, algos |-> FALSE,
                 bars |-> MaxBars, runs |-> 0,
                 requests |-> Symbols,
                 changes |-> Changes, parameters |-> ParameterSets]

NewsNext ==
    \/ Start
    \/ Stop
    \/ \E s \in Symbols : UpdatePrice(s)
    \/ \E i \in 1..Len(marks) : MarkReadDone(i)
    \/ \E s \in Symbols : NewsEvent(s)

NewsSpec == NewsInit /\ [][NewsNext]_vars

\* the engine on the quotes of FXDataSimulator, as AlphaFXTraderApp wires it:
\* getPrice returns this.prices[symbol], which has no mid field
FeedInit ==
    /\ Constructed
    /\ budget = [trades |-> MaxFeedTrades, faults |-> 0, overlaps |-> MaxOverlaps,
                 ticks |-> 0, mid |-> FALSE, days |-> 0, algos |-> FALSE,
                 bars |-> MaxBars, runs |-> 0,
                 requests |-> Symbols,
                 changes |-> Changes, parameters |-> ParameterSets]

FeedNext ==
    \/ Start
    \/ Stop
    \/ LoadCurrentVolume
    \/ TimerFire
    \/ \E s \in Symbols : UpdatePrice(s)
    \/ \E c \in Slots : GetPositionDone(c)
    \/ \E c \in Slots : InsertNotNull(c)
    \/ \E c \in Slots : Caught(c)

FeedSpec == FeedInit /\ [][FeedNext]_vars

\* the engine across midnight: one cycle at a time, no rejecting statement
DayInit ==
    /\ Constructed
    /\ budget = [trades |-> MaxDayTrades, faults |-> 0, overlaps |-> 0, ticks |-> 0,
                 mid |-> TRUE, days |-> MaxDays,
                 algos |-> FALSE, bars |-> MaxBars, runs |-> 0,
                 requests |-> Symbols,
                 changes |-> Changes, parameters |-> ParameterSets]

DayNext ==
    \/ SerialNext
    \/ DateChange

DaySpec == DayInit /\ [][DayNext]_vars

\* getCombinedSignal on every three signals the strategies may return
VoteInit ==
    /\ EngineConstructed
    /\ prices \in [Symbols -> PricePoints]
    /\ priceHistory = [s \in Symbols |-> <<>>]
    /\ lastSignal \in [components : [1..3 -> StrategySignals], result : {NoSignal}]
    /\ budget = [trades |-> 0, faults |-> 0, overlaps |-> 0, ticks |-> 0,
                 mid |-> TRUE, days |-> 0, algos |-> FALSE,
                 bars |-> MaxBars, runs |-> 0,
                 requests |-> Symbols,
                 changes |-> Changes, parameters |-> ParameterSets]

VoteSpec == VoteInit /\ [][Vote]_vars

RECURSIVE FeedOf(_, _)
\* the history addPriceData builds from the first n of a sequence of quotes
FeedOf(quotes, n) ==
    IF n = 0 THEN <<>> ELSE addPriceData(FeedOf(quotes, n - 1), quotes[n], n)

\* the strategies on every history of quotes of the finer grid
AlgoInit ==
    /\ EngineConstructed
    /\ prices \in [Symbols -> PricePoints]
    /\ \E n \in 0..maxHistory :
          \E quotes \in [1..n -> FineQuotes] :
             priceHistory \in [Symbols -> {FeedOf(quotes, n)}]
    /\ lastSignal = NoSignal
    /\ budget = [trades |-> 0, faults |-> 0, overlaps |-> 0, ticks |-> 0,
                 mid |-> TRUE, days |-> 0, algos |-> FALSE,
                 bars |-> MaxBars, runs |-> 0,
                 requests |-> Symbols,
                 changes |-> Changes, parameters |-> ParameterSets]

AlgoNext == \E s \in Symbols : GetSignal(s)

AlgoSpec == AlgoInit /\ [][AlgoNext]_vars

\* the engine on the signals of its algorithms: the history is followed and
\* evaluateSymbol acts on getCombinedSignal of it; one cycle at a time, no
\* rejecting statement.  The SELECTs of updatePositionPnL stay pending: the
\* pnl column they lead to is read by nothing the engine decides on
StrategyInit ==
    /\ EngineConstructed
    /\ prices \in [Symbols -> FineQuotes]
    /\ priceHistory = [s \in Symbols |-> <<>>]
    /\ lastSignal = NoSignal
    /\ budget = [trades |-> MaxStrategyTrades, faults |-> 0, overlaps |-> 0,
                 ticks |-> MaxStrategyTicks, mid |-> TRUE, days |-> 0, algos |-> TRUE,
                 bars |-> MaxBars, runs |-> 0,
                 requests |-> Symbols,
                 changes |-> Changes, parameters |-> ParameterSets]

StrategySpec == StrategyInit /\ [][SerialNext]_vars

\* backtests whose results are followed, while the live feed moves
BacktestInit ==
    /\ Constructed
    /\ budget = [trades |-> 0, faults |-> 0, overlaps |-> 0, ticks |-> 0, mid |-> TRUE,
                 days |-> 0, algos |-> FALSE, bars |-> MaxBacktestBars,
                 runs |-> MaxRuns, requests |-> Symbols,
                 changes |-> Changes, parameters |-> ParameterSets]

BacktestNext ==
    \/ \E s \in Symbols : UpdatePrice(s)
    \/ RunBacktest

BacktestSpec == BacktestInit /\ [][BacktestNext]_vars

\* a backtest beside the running engine: one cycle at a time, no rejecting
\* statement, the history followed
LiveBacktestInit ==
    /\ Constructed
    /\ budget = [trades |-> MaxBesideTrades, faults |-> 0, overlaps |-> 0,
                 ticks |-> MaxBesideTicks, mid |-> TRUE, days |-> 0, algos |-> FALSE,
                 bars |-> MaxBesideBars, runs |-> 1,
                 requests |-> Symbols,
                 changes |-> Changes, parameters |-> ParameterSets]

LiveBacktestNext ==
    \/ SerialNext
    \/ RunBacktest

LiveBacktestSpec == LiveBacktestInit /\ [][LiveBacktestNext]_vars

\* the engine trades while backtests are run on bars whose signal may have
\* exactly the confidence of the threshold
ThresholdInit ==
    /\ Constructed
    /\ budget = [trades |-> MaxThresholdTrades, faults |-> 0, overlaps |-> 0,
                 ticks |-> 0, mid |-> TRUE, days |-> 0, algos |-> FALSE,
                 bars |-> MaxThresholdBars, runs |-> 1, requests |-> Symbols,
                 changes |-> ThresholdChanges,
                 parameters |-> {ThresholdOptions}]

ThresholdSpec == ThresholdInit /\ [][LiveBacktestNext]_vars

\* backtests of symbols the registry holds and of one it does not hold
RegistryInit ==
    /\ Constructed
    /\ budget = [trades |-> 0, faults |-> 0, overlaps |-> 0, ticks |-> 0, mid |-> TRUE,
                 days |-> 0, algos |-> FALSE, bars |-> MaxBacktestBars - 1,
                 runs |-> MaxRuns, requests |-> Symbols \cup {Unlisted},
                 changes |-> Changes, parameters |-> ParameterSets]

RegistrySpec == RegistryInit /\ [][BacktestNext]_vars

-----------------------------------------------------------------------------
(* What the properties speak of *)

\* the cycle in slot c makes a trade attempt in this step: evaluateSymbol hands
\* a trade to executeBuy or executeSell
Attempts(c) ==
    /\ cycle[c].pc = "getPosition"
    /\ Proposal(c) # NoTrade
    /\ cycle'[c] # cycle[c]
    /\ cycle'[c].pc # "caught"

\* the attempt goes on to the INSERT INTO trades
Executes(c) == cycle'[c].pc = "insert"

\* an execution of the cycle in slot c comes to its catch in this step
ExecutionFails(c) ==
    /\ cycle[c].pc \in {"insert", "readPosition", "writePosition", "statsCount",
                        "statsPnl", "statsActive", "statsWrite"}
    /\ cycle'[c].pc = "caught"

\* the execution in slot c has inserted its trade row
Inserted(c) == cycle[c].dbId \in 1..Len(trades)

\* the execution in slot c has written the position and raised the daily volume
Applied(c) == cycle[c].pc \in {"statsCount", "statsPnl", "statsActive", "statsWrite"}

\* no evaluation cycle is in flight
Quiescent == \A c \in Slots : cycle[c].pc = "idle"

\* the sum of the signed quantities of the first n trades on symbol s
RECURSIVE SumSigned(_, _)
SumSigned(s, n) ==
    IF n = 0 THEN Zero
    ELSE IF trades[n].symbol = s
         THEN RAdd(SumSigned(s, n - 1), SignedQuantity(trades[n]))
         ELSE SumSigned(s, n - 1)

StoredQuantity(s) == IF positions[s] = NoRow THEN Zero ELSE positions[s].quantity

-----------------------------------------------------------------------------
(* Properties *)

\* C1: the daily volume of the engine never exceeds the daily cap, whatever
\* BUYs and SELLs are executed, by overlapping cycles too.
C1_VolumeWithinCap == RLe(currentDailyVolume, Rat(maxDailyVolume))

\* C2: a trade attempt whose value would take the daily volume over the cap is
\* rejected (no trade row, no position change, no volume change) and the
\* engine is no longer running after the rejection.
C2_OverCapRejectsAndHalts ==
    [][\A c \in Slots :
          (Attempts(c) /\ RLt(Rat(maxDailyVolume),
                              RAdd(currentDailyVolume, Proposal(c).value)))
          => /\ ~Executes(c)
             /\ UNCHANGED <<trades, positions, currentDailyVolume>>
             /\ ~isActive']_vars

\* C3: once an attempt has been rejected for exceeding the daily cap, no later
\* attempt, BUY or SELL, of any size, executes.
C3_NoExecutionAfterRejection ==
    [][\A c \in Slots : (volumeLimitLogged /\ Attempts(c)) => ~Executes(c)]_vars

\* C4: while the engine is not running no trade is persisted, applied to a
\* position or emitted, not even by a cycle that was in flight at stop().
C4_NoTradeWhileStopped ==
    [][~isActive => UNCHANGED <<trades, positions, emitted>>]_vars

\* C5: if the engine is running and the daily volume has reached the cap, the
\* engine eventually stops itself (the timer keeps firing).
C5_EventuallyHalts == (isActive /\ isVolumeExceeded) ~> ~isActive

\* C6: when a persistence step of an execution fails, no trade of that
\* execution is in the trades table and neither the position nor the daily
\* volume carries the trade.
C6_AtomicExecution ==
    [][\A c \in Slots :
          ExecutionFails(c)
          => ~Inserted(c) /\ ~Applied(c)]_vars

\* C7: when the INSERT INTO trades fails, the execution returns null through
\* its catch, the trades table, the positions, the daily volume and the
\* trading_stats row are unchanged and no tradeExecuted event is emitted.
C7_InsertFailureChangesNothing ==
    [][\A c \in Slots :
          (cycle[c].pc = "insert" /\ cycle'[c].pc \notin {"insert", "readPosition"})
          => /\ cycle'[c].pc = "caught"
             /\ cycle'[c].error = "insert"
             /\ UNCHANGED <<trades, positions, currentDailyVolume, stats, emitted>>]_vars

\* C7 happens: an execution is in its catch because its INSERT was rejected
C7_Witness ==
    \E c \in Slots : cycle[c].pc = "caught" /\ cycle[c].error = "insert"

\* C8: when no statement rejects on its own and no cycle is in flight, the
\* stored quantity of every symbol is the sum of the signed quantities of the
\* persisted trades of the symbol, however the executions interleaved.
C8_QuantityIsSumOfTrades ==
    (Quiescent /\ faults = 0)
    => \A s \in Symbols : StoredQuantity(s) = SumSigned(s, Len(trades))

\* C9: every stored position has quantity = 0 exactly when avg_price = 0.
C9_FlatIffZeroAverage ==
    \A s \in Symbols :
        positions[s] # NoRow
        => (positions[s].quantity = Zero <=> positions[s].avg_price = Zero)

\* C10: the avg_price of every stored position is >= 0.
C10_AverageNonNegative ==
    \A s \in Symbols : positions[s] # NoRow => RLe(Zero, positions[s].avg_price)

-----------------------------------------------------------------------------
(* The ledger arithmetic, trade by trade *)

\* the cycle in slot c applies its trade to the position in this step
Applies(c) == cycle[c].pc = "writePosition" /\ cycle'[c].pc = "statsCount"

\* the sign of a number
Sign(a) == IF a[1] > 0 THEN 1 ELSE IF a[1] < 0 THEN -1 ELSE 0

\* the trade of slot c is larger than the opposite-signed position it meets
Flips(c) ==
    LET row == positions[cycle[c].trade.symbol]
    IN  /\ row # NoRow
        /\ Sign(row.quantity) # 0
        /\ Sign(row.quantity) = -Sign(SignedQuantity(cycle[c].trade))
        /\ RLt(RAbs(row.quantity), cycle[c].trade.quantity)

\* C11: a trade larger than the opposite-signed position it is applied to
\* leaves quantity q0 + signed and avg_price equal to the trade price.
C11_FlipTakesTradePrice ==
    [][\A c \in Slots :
          (Applies(c) /\ Flips(c))
          => LET s == cycle[c].trade.symbol
             IN  /\ positions'[s].quantity =
                        RAdd(positions[s].quantity, SignedQuantity(cycle[c].trade))
                 /\ positions'[s].avg_price = cycle[c].trade.price]_vars

\* the trade of slot c is smaller than the opposite-signed position it meets
Reduces(c) ==
    LET row == positions[cycle[c].trade.symbol]
    IN  /\ row # NoRow
        /\ Sign(row.quantity) # 0
        /\ Sign(row.quantity) = -Sign(SignedQuantity(cycle[c].trade))
        /\ RLt(cycle[c].trade.quantity, RAbs(row.quantity))

\* C32: a trade that reduces a position without closing or flipping it leaves
\* avg_price as it was, a SELL against a long and a BUY against a short alike.
C32_ReductionKeepsAverage ==
    [][\A c \in Slots :
          (Applies(c) /\ Reduces(c))
          => LET s == cycle[c].trade.symbol
             IN  positions'[s].avg_price = positions[s].avg_price]_vars

\* The reference ledger of the specification after the first n trades on
\* symbol s: quantity, average price and realized PnL, by the rule
\* realized_delta = (price - a0) * min(|q0|, quantity) * sign(q0) on a trade
\* that reduces, closes or flips, and 0 on a trade that opens or adds.
RECURSIVE TapeLedger(_, _)
TapeLedger(s, n) ==
    IF n = 0 THEN [q |-> Zero, a |-> Zero, realized |-> Zero]
    ELSE LET before == TapeLedger(s, n - 1)
             trade == trades[n]
             signed == SignedQuantity(trade)
             q1 == RAdd(before.q, signed)
         IN  IF trade.symbol # s THEN before
             ELSE IF Sign(before.q) = 0 \/ Sign(before.q) = Sign(signed)
             THEN [q |-> q1,
                   a |-> RDiv(RAdd(RMul(RAbs(before.q), before.a),
                                   RMul(trade.quantity, trade.price)), RAbs(q1)),
                   realized |-> before.realized]
             ELSE [q |-> q1,
                   a |-> IF Sign(q1) = 0 THEN Zero
                         ELSE IF Sign(q1) = Sign(before.q) THEN before.a
                         ELSE trade.price,
                   realized |->
                       RAdd(before.realized,
                            RMul(RMul(RSub(trade.price, before.a),
                                      RMin(RAbs(before.q), trade.quantity)),
                                 Rat(Sign(before.q))))]

\* the net realized PnL of the trade tape, over all symbols
RECURSIVE TapeRealized(_)
TapeRealized(k) ==
    IF k = 0 THEN Zero
    ELSE RAdd(TapeRealized(k - 1), TapeLedger(SymbolList[k], Len(trades)).realized)

\* C12: once the executions have finished, the daily PnL recorded in
\* trading_stats is the net realized PnL of the trade tape: opening and adding
\* trades contribute 0, reducing, closing and flipping trades contribute
\* (price - a0) * min(|q0|, quantity) * sign(q0).
C12_RecordedPnlIsRealized ==
    (Quiescent /\ stats # NoRow) => stats.total_pnl = TapeRealized(Len(SymbolList))

-----------------------------------------------------------------------------
(* Marks, ticks and histories *)

\* no updatePositionPnL call is in flight for symbol s
NoMarkInFlight(s) == \A i \in 1..Len(marks) : marks[i].symbol # s

\* C13: whenever no mark and no trade is in flight for a symbol, the stored
\* pnl of its position is (latest mid - avg_price) * quantity; so it is 0 for
\* a position closed to quantity 0.
C13_PnlIsMarkedToMid ==
    \A s \in Symbols :
        (Quiescent /\ NoMarkInFlight(s) /\ positions[s] # NoRow)
        => positions[s].pnl = RMul(RSub(Mid(prices[s]), positions[s].avg_price),
                                   positions[s].quantity)

\* the last k elements of a sequence
LastOf(seq, k) == SubSeq(seq, Len(seq) - k + 1, Len(seq))

\* C14: after n points were added for a symbol, its history has length
\* min(n, maxHistory) and is the most recent min(n, maxHistory) points, oldest
\* first.
C14_HistoryIsLastPoints ==
    \A s \in Symbols :
        LET n == Len(added[s])
            k == IF n < maxHistory THEN n ELSE maxHistory
        IN  /\ Len(priceHistory[s]) = k
            /\ priceHistory[s] = LastOf(added[s], k)

\* C14 happens: more points than maxHistory were added and the oldest are gone
C14_Witness ==
    \E s \in Symbols :
        /\ Len(added[s]) > maxHistory
        /\ priceHistory[s][1] # added[s][1]

\* C15: the engine's indicator history receives the ticks of a symbol at most
\* once each and in emission order (strictly increasing sequence numbers),
\* whatever start() and stop() calls were made.
C15_TicksOnceInOrder ==
    \A s \in Symbols :
        \A i, j \in 1..Len(added[s]) :
            i < j => added[s][i].timestamp < added[s][j].timestamp

\* C16: a stopped engine has no priceUpdate listener registered, and a tick
\* emitted while it is stopped reaches neither its history nor its marks.
C16_StoppedEngineUnsubscribed ==
    [][(~isActive /\ tickSeq' # tickSeq)
       => (listeners = 0 /\ UNCHANGED <<priceHistory, added, marks>>)]_vars

\* the tick a history point was made from satisfies bid > 0, ask >= bid and
\* spread > 0: the point carries the bid as low and the ask as high
FromValidTick(point) ==
    /\ RLt(Zero, point.low)
    /\ RLe(point.low, point.high)
    /\ RLt(Zero, RSub(point.high, point.low))

\* C17: a tick that violates bid > 0, ask >= bid or spread > 0 is never
\* appended to a history by addPriceData.
C17_NoBadTickInHistory ==
    /\ \A s \in Symbols :
          \A i \in 1..Len(priceHistory[s]) : FromValidTick(priceHistory[s][i])
    /\ \A i \in 1..Len(backtestHistory) : FromValidTick(backtestHistory[i])

-----------------------------------------------------------------------------
(* The gates of evaluateSymbol *)

\* the stored quantity of the symbol the trade of slot c is about
QuantityMet(c) == StoredQuantity(cycle[c].trade.symbol)

\* C18: a BUY is applied only to a position of quantity <= 0 and a SELL only
\* to a position of quantity >= 0, the quantity being the stored one at the
\* moment the trade is applied.
C18_DirectionFitsPosition ==
    [][\A c \in Slots :
          Applies(c)
          => /\ cycle[c].trade.side = "buy" => RLe(QuantityMet(c), Zero)
             /\ cycle[c].trade.side = "sell" => RLe(Zero, QuantityMet(c))]_vars

\* the cycle in slot c passes the gates in this step and goes on to execute
Accepted(c) == cycle[c].pc = "getPosition" /\ cycle'[c].pc = "insert"

\* evaluateSymbol of slot c resumes in this step and executes no trade
TurnedDown(c) ==
    /\ cycle[c].pc = "getPosition"
    /\ cycle'[c] # cycle[c]
    /\ cycle'[c].pc # "insert"

\* |quantity * avg_price| of the stored position of symbol s
Exposure(s) ==
    IF positions[s] = NoRow THEN Zero
    ELSE RAbs(RMul(positions[s].quantity, positions[s].avg_price))

\* C19: no trade goes to execution with a notional above 10% of the daily cap;
\* the engine stays running when such a trade is turned down.
C19_TradeWithinTenth ==
    [][\A c \in Slots :
          /\ Accepted(c)
             => RLe(cycle'[c].trade.value, RMul(Rat(maxDailyVolume), Norm(1, 10)))
          /\ TurnedDown(c) => isActive' = isActive]_vars

\* C20: a trade goes to execution only if the exposure of its symbol plus the
\* notional of the trade is at most 20% of the daily cap; the engine stays
\* running when a trade is turned down.
C20_ExposureWithinFifth ==
    [][\A c \in Slots :
          /\ Accepted(c)
             => RLe(RAdd(Exposure(cycle'[c].trade.symbol), cycle'[c].trade.value),
                    RMul(Rat(maxDailyVolume), Norm(2, 10)))
          /\ TurnedDown(c) => isActive' = isActive]_vars

\* a trade the engine builds with status 'executed' or has stored
WellFormed(trade) ==
    /\ RLt(Zero, trade.quantity)
    /\ RLt(Zero, trade.price)
    /\ trade.value = RMul(trade.quantity, trade.price)
    /\ RLe(Rat(minTradeValue), trade.value)

\* C21: every trade the engine executes, the one an execution in flight has
\* built and every stored one, has quantity > 0, price > 0, value = quantity x
\* price and value >= the minimum notional, on the quotes of the feed simulator
\* and for every confidence from 0.6 to 1.
C21_TradesWellFormed ==
    /\ \A c \in Slots : cycle[c].trade # NoTrade => WellFormed(cycle[c].trade)
    /\ \A i \in 1..Len(trades) : WellFormed(trades[i])

RECURSIVE SumValues(_, _)
\* the sum of the values of the trades among the first n that were executed on
\* the date day
SumValues(n, day) ==
    IF n = 0 THEN Zero
    ELSE IF trades[n].date # day THEN SumValues(n - 1, day)
    ELSE RAdd(SumValues(n - 1, day), trades[n].value)

\* the execution in slot c, which inserted its trade and began its statistics
\* on the current date, writes the trading_stats row of that date in this step
RecordsToday(c) ==
    /\ cycle[c].pc = "statsWrite"
    /\ cycle'[c].pc \notin {"statsWrite", "caught"}
    /\ cycle[c].day = today
    /\ trades[cycle[c].dbId].date = today

\* C22: the daily volume is reset when the UTC date changes: the total_volume an
\* execution records for the current date, and the volume of the engine it
\* leaves, count only the trades executed on that date.
C22_VolumeIsOfToday ==
    [][\A c \in Slots :
          RecordsToday(c)
          => /\ RLe(stats'.total_volume, SumValues(Len(trades), today))
             /\ RLe(currentDailyVolume', SumValues(Len(trades), today))]_vars

\* C23: within one date the daily volume of the engine and the total_volume of
\* the trading_stats row of the date never decrease, whatever step is taken,
\* the completion of the constructor's loadCurrentVolume included.
C23_VolumeNeverDecreases ==
    [][today' = today
       => /\ RLe(currentDailyVolume, currentDailyVolume')
          /\ stats # NoRow
             => stats' # NoRow /\ RLe(stats.total_volume, stats'.total_volume)]_vars

\* the strategies among three signals that count for a kind: confidence > 0
Voters(components, kind) ==
    {i \in 1..3 : RLt(Zero, components[i].confidence) /\ components[i].signal = kind}

\* the mean of the confidences of the strategies in a non-empty set
MeanConfidence(components, voters) ==
    LET one == CHOOSE i \in voters : TRUE
        two == CHOOSE i \in voters : Cardinality(voters) = 1 \/ i # one
        sum == IF Cardinality(voters) = 1 THEN components[one].confidence
               ELSE IF Cardinality(voters) = 2
               THEN RAdd(components[one].confidence, components[two].confidence)
               ELSE RAdd(components[1].confidence,
                         RAdd(components[2].confidence, components[3].confidence))
    IN  RDiv(sum, Rat(Cardinality(voters)))

\* the consensus as the specification gives it
Consensus(components) ==
    LET buys == Voters(components, "buy")
        sells == Voters(components, "sell")
    IN  IF Cardinality(buys) > Cardinality(sells)
        THEN Signal("buy", RMin(MeanConfidence(components, buys), Rat(1)))
        ELSE IF Cardinality(sells) > Cardinality(buys)
        THEN Signal("sell", RMin(MeanConfidence(components, sells), Rat(1)))
        ELSE Hold

MeanOfLast(history, n) == RDiv(SumPrice(getPriceHistory(history, n)), Rat(n))

\* the crossover of the specification on a history of at least smaLong + 1
\* points: S and L are the short and the long average now, S1 and L1 the same
\* one point earlier
Crossover(history) ==
    LET earlier == SubSeq(history, 1, Len(history) - 1)
        S == MeanOfLast(history, smaShort)
        L == MeanOfLast(history, smaLong)
        S1 == MeanOfLast(earlier, smaShort)
        L1 == MeanOfLast(earlier, smaLong)
    IN  IF RLe(S1, L1) /\ RLt(L, S) THEN "buy"
        ELSE IF RLe(L1, S1) /\ RLt(S, L) THEN "sell"
        ELSE "hold"

\* C26: on a history of at least long + 1 points the SMA crossover strategy
\* says buy exactly on a golden cross (S1 <= L1 and S > L), sell exactly on a
\* death cross (S1 >= L1 and S < L), and hold with confidence 0 otherwise,
\* also where a short and a long average are equal.
C26_CrossoverAsSpecified ==
    (lastSignal # NoSignal /\ lastSignal.result # NoSignal)
    => LET history == priceHistory[lastSignal.symbol]
           sma == lastSignal.components[1]
       IN  Len(history) >= smaLong + 1
           => /\ sma.signal = Crossover(history)
              /\ sma.signal = "hold" => sma.confidence = Zero

\* how many of the strategies whose signals are given say kind
Agreeing(components, kind) ==
    Cardinality({i \in DOMAIN components : components[i].signal = kind})

\* C25: a trade is executed only when two or more of the three strategies
\* (SMA crossover, RSI, Bollinger Bands) gave the direction of the signal
\* acted on.
C25_TradesNeedTwoInAgreement ==
    [][\A c \in Slots :
          Accepted(c) => Agreeing(cycle[c].components, cycle[c].signal.signal) >= 2]_vars

\* a full history of strictly ascending prices
Ascending(history) ==
    /\ Len(history) = maxHistory
    /\ \A i \in 1..(Len(history) - 1) : RLt(history[i].price, history[i + 1].price)

\* evaluateSymbol of slot c finds a confident signal in this step
Signalled(c) == cycle[c].pc = "idle" /\ cycle'[c].pc = "getPosition"

\* C27: on an ascending series fed to a running engine with a flat position
\* the signal the engine acts on is a golden-cross BUY: the SMA crossover says
\* buy and so does the combined signal, so that the trade executed is a BUY.
C27_AscendingSeriesBuys ==
    [][\A c \in Slots :
          (/\ Signalled(c)
           /\ Ascending(priceHistory[SymbolList[cycle'[c].idx]])
           /\ positions[SymbolList[cycle'[c].idx]] = NoRow)
          => /\ cycle'[c].components[1].signal = "buy"
             /\ cycle'[c].signal.signal = "buy"]_vars

-----------------------------------------------------------------------------
(* The backtest *)

\* two results of runBacktest come from identical inputs
SameInputs(a, b) ==
    a.symbol = b.symbol /\ a.bars = b.bars /\ a.parameters = b.parameters

\* C28: two backtests with identical inputs (symbol, start, end, interval,
\* parameters) have identical metrics (total trades, win rate, return
\* percent), whatever the live feed did before or between them.
C28_BacktestReproducible ==
    \A i, j \in 1..Len(runs) :
        SameInputs(runs[i], runs[j]) => runs[i].stats = runs[j].stats

\* C29: a backtest leaves the live state as it was: the histories of the live
\* algorithms, the current prices of the simulator, the stored trades,
\* positions and daily stats, the running flag of the engine and its daily
\* volume.
C29_BacktestLeavesLiveState ==
    [][runs' # runs
       => UNCHANGED <<priceHistory, prices, trades, positions, stats, isActive,
                      currentDailyVolume>>]_vars

\* a backtest has run beside an engine that runs, has traded and has a history
C29_Witness ==
    /\ runs # <<>>
    /\ isActive
    /\ trades # <<>>
    /\ stats # NoRow
    /\ RLt(Zero, currentDailyVolume)
    /\ \E s \in Symbols : priceHistory[s] # <<>> /\ positions[s] # NoRow

\* C30: a backtest computes a signal, and so can trade, only once its history
\* holds at least minBacktestHistory points: no trade of a backtest is made on
\* an earlier bar.
C30_NoTradeBeforeWarmUp ==
    \A r \in 1..Len(runs) :
        \A i \in 1..Len(runs[r].trades) : runs[r].trades[i].bar >= minBacktestHistory

-----------------------------------------------------------------------------
(* The registry of symbols *)

\* C31: an operation that names a symbol outside the registry fails with an
\* unknown-symbol error and changes nothing: no backtest returns a result for
\* such a symbol.
C31_UnknownSymbolFails ==
    \A r \in 1..Len(runs) : runs[r].symbol \in Symbols

-----------------------------------------------------------------------------
(* The life cycle of the engine *)

\* C33: the daily volume of today is loaded before the evaluation loop
\* begins: no evaluation cycle, risk check or execution takes a step while the
\* load is pending, and the load does not lower the volume executed trades
\* have added.
C33_VolumeLoadedFirst ==
    [][/\ (\E c \in Slots : cycle'[c] # cycle[c]) => ~loadPending
       /\ (loadPending /\ ~loadPending')
          => RLe(currentDailyVolume, currentDailyVolume')]_vars

\* C34: start() takes effect only on a stopped engine and stop() only on a
\* running one, so whatever the calls, a live evaluation timer exists exactly
\* while the engine is active (start() sets one only when none is live).
C34_OneTimerWhileActive == tradingInterval <=> isActive

\* the engine was started, stopped and started again and has traded
C34_Witness ==
    /\ listeners = MaxStarts
    /\ isActive /\ tradingInterval
    /\ Len(trades) > 0

\* the execution in slot c comes to the end of its try block in this step
Completes(c) ==
    /\ cycle[c].pc = "statsWrite"
    /\ cycle'[c] # cycle[c]
    /\ cycle'[c].pc # "caught"

\* C35: tradeExecuted is emitted only when the INSERT of the trade, the update
\* of the position and the upsert of the daily statistics of that execution
\* have all succeeded, once for each execution that completes, and never for
\* one that fails: every emitted event is the event of a stored trade.
C35_EventAfterAllSucceeded ==
    [][/\ \A id \in emitted' \ emitted :
             /\ emitted' = emitted \cup {id}
             /\ id \in 1..Len(trades)
             /\ \E c \in Slots :
                   /\ Completes(c)
                   /\ cycle[c].dbId = id
                   /\ positions[cycle[c].trade.symbol] # NoRow
       /\ \A c \in Slots : Completes(c) => cycle[c].dbId \in emitted' \ emitted
       /\ \A c \in Slots : ExecutionFails(c) => emitted' = emitted
       /\ emitted' \subseteq 1..Len(trades')]_vars

\* one execution has completed and emitted its event, another has stored its
\* trade and failed afterwards
C35_Witness ==
    /\ Quiescent
    /\ emitted # {}
    /\ faults > 0
    /\ Cardinality(emitted) < Len(trades)

-----------------------------------------------------------------------------
(* The threshold of the engine and of the backtest *)

\* the signal the last backtest computed at its bar i
LastRunSignal(i) ==
    getCombinedSignal(SubSeq(backtestHistory, 1, i), runs[Len(runs)].parameters)

\* the last backtest made no trade before its bar i
FlatBefore(i) ==
    \A k \in 1..Len(runs[Len(runs)].trades) : runs[Len(runs)].trades[k].bar >= i

\* C36: the engine and the backtest act on a signal under the same threshold,
\* confidence >= 0.6, a confidence of exactly 0.6 included: a cycle of the
\* engine goes on to an execution only with such a signal, and a backtest that
\* holds no position buys at every bar whose signal is buy with such a
\* confidence.
C36_SameThreshold ==
    /\ \A c \in Slots :
          (cycle[c].pc # "idle" /\ cycle[c].signal # NoTrade) => Confident(cycle[c].signal)
    /\ (Len(runs) > 0 /\ Len(backtestHistory) = runs[Len(runs)].bars)
          => \A i \in 1..Len(backtestHistory) :
                \A sg \in {LastRunSignal(i)} :
                   (sg.signal = "buy" /\ Confident(sg) /\ FlatBefore(i))
                      => \E k \in 1..Len(runs[Len(runs)].trades) :
                            /\ runs[Len(runs)].trades[k].bar = i
                            /\ runs[Len(runs)].trades[k].side = "buy"

-----------------------------------------------------------------------------
(* The book of a backtest *)

RECURSIVE PositionAfter(_, _)
\* the position of a backtest after the first k of its trades
PositionAfter(made, k) ==
    IF k = 0 THEN 0
    ELSE PositionAfter(made, k - 1)
           + (IF made[k].side = "buy" THEN made[k].quantity ELSE -made[k].quantity)

RECURSIVE CashAfter(_, _)
\* the balance of a backtest after the first k of its trades
CashAfter(made, k) ==
    IF k = 0 THEN Rat(startingBalance)
    ELSE IF made[k].side = "buy"
    THEN RSub(CashAfter(made, k - 1), made[k].value)
    ELSE RAdd(CashAfter(made, k - 1), made[k].value)

-----------------------------------------------------------------------------
(* Cycles in flight and the daily totals *)

\* C38: at most one evaluation cycle is in flight: no cycle begins while
\* another still awaits a statement of the database.
C38_OneCycleInFlight ==
    \A c, d \in Slots : (cycle[c].pc # "idle" /\ cycle[d].pc # "idle") => c = d
\* C39: whenever no execution is in flight, the daily volume in memory and the
\* total_volume stored for today both equal the sum of the values of the
\* trades stored for today, and the stored total_trades equals their number.
C39_TotalsMatchTrades ==
    Quiescent =>
       /\ currentDailyVolume = SumValues(Len(trades), today)
       /\ IF stats = NoRow
          THEN CountTrades(today) = 0
          ELSE /\ stats.total_volume = SumValues(Len(trades), today)
               /\ stats.total_trades = CountTrades(today)
-----------------------------------------------------------------------------
(* The price of the feed and its ticks *)

\* C40: every change of the current price of a symbol is published as a
\* priceUpdate: the step that changes the price getPrice returns is a tick,
\* and with the engine subscribed the newest point of the indicator history
\* of the symbol is the point of that price.
C40_PriceChangesArePublished ==
    [][\A s \in Symbols :
          prices'[s] # prices[s]
             => /\ tickSeq' = tickSeq + 1
                /\ listeners > 0
                      => /\ priceHistory'[s] # <<>>
                         /\ priceHistory'[s][Len(priceHistory'[s])]
                               = HistoryPoint(prices'[s], tickSeq')]_vars



































=============================================================================
